---- MODULE Spec2Model ----
\* Model of sqlx-macros/src/derives/encode.rs: the derive(Encode) expansion
\* (expand_derive_encode and its four generators) together with the run-time
\* behaviour of the impl blocks the expansion emits.
EXTENDS Integers, Sequences, FiniteSets, TLC

\* ---------------------------------------------------------------- bounds
MaxVariants == 3
MaxFields == 3

\* ------------------------------------------------------- option encoding
\* Option<T> is a sequence of length 0 (None) or 1 (Some(x)).
None == << >>
Some(x) == << x >>
IsSome(o) == Len(o) = 1
Unwrap(o) == o[1]

\* ------------------------------------------------------ identifier text
\* Text is a sequence of ASCII codes, so that casing is computed, not assumed.
\* "One", "Two", "Three"; later variants are "V" followed by i times "x".
VariantIdent(i) ==
    CASE i = 1 -> << 79, 110, 101 >>
      [] i = 2 -> << 84, 119, 111 >>
      [] i = 3 -> << 84, 104, 114, 101, 101 >>
      [] OTHER -> << 86 >> \o [j \in 1..i |-> 120]

\* The label a #[sqlx(rename = "Four")] attribute carries.
RenameLabel == << 70, 111, 117, 114 >>

\* char::to_ascii_lowercase / str::to_lowercase on ASCII text.
LowerChar(c) == IF c >= 65 /\ c <= 90 THEN c + 32 ELSE c
ToLowercase(s) == [j \in 1..Len(s) |-> LowerChar(s[j])]

\* rename_all(s, pattern): the casing transformer; "lowercase" is the convention
\* the derive tests use.
rename_all(s, pattern) ==
    CASE pattern = "lowercase" -> ToLowercase(s)
      [] OTHER -> s

\* ------------------------------------------------------------ the input
ReprTypes == {"i8", "i16"}
FieldTypes == {"i16", "opt_i16"}
DataKinds == {"struct_unnamed", "struct_named", "struct_unit", "enum", "union"}

\* Raw container attributes: either a list the resolver cannot parse (an
\* unknown option), or a repr / rename_all combination.
ContainerAttrs ==
    { [bad |-> TRUE, repr |-> None, rename_all |-> None] } \cup
    { [bad |-> FALSE, repr |-> r, rename_all |-> ra] :
        r \in {None} \cup {Some(t) : t \in ReprTypes},
        ra \in {None, Some("lowercase")} }

\* Raw member attributes of a variant: nothing, a rename, or an unknown option.
ChildAttrs == {"none", "rename", "bogus"}

\* Declared discriminant of a variant: absent, or one of these values.
DiscChoices == {None, Some(0), Some(2), Some(4)}

Variants == [attr : ChildAttrs, disc : DiscChoices]
Fields == [ty : FieldTypes]

SeqsUpTo(S, n) == UNION { [1..k -> S] : k \in 0..n }

\* ----------------------------------------------- enum discriminants (rustc)
\* The discriminant rustc assigns to variant i: the declared value, else the
\* previous variant's discriminant plus one, else 0 for the first variant.
RECURSIVE Discriminant(_, _)
Discriminant(variants, i) ==
    IF IsSome(variants[i].disc) THEN Unwrap(variants[i].disc)
    ELSE IF i = 1 THEN 0
    ELSE Discriminant(variants, i - 1) + 1

TypeBits(ty) == IF ty = "i8" THEN 8 ELSE 16
Pow2(n) == IF n = 8 THEN 256 ELSE 65536

\* `x as ty` for an integer type of TypeBits(ty) bits: two's-complement wrap.
CastAs(x, ty) ==
    LET m == Pow2(TypeBits(ty))
        u == x % m
    IN IF u >= m \div 2 THEN u - m ELSE u

\* An enum definition rustc accepts: discriminants pairwise distinct.
ValidEnum(variants) ==
    \A i, j \in 1..Len(variants) :
        i # j => Discriminant(variants, i) # Discriminant(variants, j)

\* ---------------------------------------------------------- DeriveInput
DeriveInputs ==
    { [data |-> "struct_unnamed", fields |-> fs, variants |-> << >>, attrs |-> a] :
        fs \in SeqsUpTo(Fields, MaxFields), a \in ContainerAttrs } \cup
    { [data |-> "struct_named", fields |-> fs, variants |-> << >>, attrs |-> a] :
        fs \in SeqsUpTo(Fields, MaxFields), a \in ContainerAttrs } \cup
    { [data |-> d, fields |-> << >>, variants |-> << >>, attrs |-> a] :
        d \in {"struct_unit", "union"}, a \in ContainerAttrs } \cup
    { [data |-> "enum", fields |-> << >>, variants |-> vs, attrs |-> a] :
        vs \in { v \in SeqsUpTo(Variants, MaxVariants) : ValidEnum(v) },
        a \in ContainerAttrs }

\* ------------------------------------------------------ Result<T, Error>
Ok(v) == [ok |-> TRUE, val |-> v, err |-> ""]

\* --------------------------------------------------- attribute resolver
\* parse_container_attributes: fails on an option it does not know.
NoAttrs == [repr |-> None, rename_all |-> None]
parse_container_attributes(attrs) ==
    IF attrs.bad
    THEN [ok |-> FALSE, val |-> NoAttrs, err |-> "unexpected attribute"]
    ELSE Ok([repr |-> attrs.repr, rename_all |-> attrs.rename_all])

\* parse_child_attributes: the member-level rename, or a failure.
parse_child_attributes(attr) ==
    CASE attr = "bogus" -> [ok |-> FALSE, val |-> [rename |-> None], err |-> "unexpected attribute"]
      [] attr = "rename" -> Ok([rename |-> Some(RenameLabel)])
      [] OTHER -> Ok([rename |-> None])

\* check_transparent_attributes: forbids a representation and rename_all.
check_transparent_attributes(attrs) ==
    LET a == parse_container_attributes(attrs)
    IN IF ~a.ok THEN a
       ELSE IF IsSome(a.val.rename_all)
       THEN [ok |-> FALSE, val |-> NoAttrs, err |-> "unexpected #[sqlx(rename_all = ..)]"]
       ELSE IF IsSome(a.val.repr)
       THEN [ok |-> FALSE, val |-> NoAttrs, err |-> "unexpected #[repr(..)]"]
       ELSE a

\* check_weak_enum_attributes: requires a representation.
check_weak_enum_attributes(attrs) ==
    LET a == parse_container_attributes(attrs)
    IN IF ~a.ok THEN a
       ELSE IF ~IsSome(a.val.repr)
       THEN [ok |-> FALSE, val |-> NoAttrs, err |-> "expected #[repr(..)]"]
       ELSE a

\* check_strong_enum_attributes: forbids a representation, permits rename_all.
check_strong_enum_attributes(attrs) ==
    LET a == parse_container_attributes(attrs)
    IN IF ~a.ok THEN a
       ELSE IF IsSome(a.val.repr)
       THEN [ok |-> FALSE, val |-> NoAttrs, err |-> "unexpected #[repr(..)]"]
       ELSE a

\* check_struct_attributes: forbids a representation.
check_struct_attributes(attrs) ==
    LET a == parse_container_attributes(attrs)
    IN IF ~a.ok THEN a
       ELSE IF IsSome(a.val.repr)
       THEN [ok |-> FALSE, val |-> NoAttrs, err |-> "unexpected #[repr(..)]"]
       ELSE a

\* ------------------------------------------------- the emitted token stream
\* A function body of the emitted impl block.
\*   delegate: <T as Encode>::call(recv) with recv one of
\*             "self.0", "self as repr", "match self { arms }"
\*   record:   the PgRecordEncoder statement list
\*   sum:      the size_hint expression, as tokens
Delegate(recv, call) ==
    [form |-> "delegate", recv |-> recv, call |-> call, stmts |-> << >>, toks |-> << >>]
RecordBody(stmts) ==
    [form |-> "record", recv |-> "", call |-> "", stmts |-> stmts, toks |-> << >>]
SumBody(toks) ==
    [form |-> "sum", recv |-> "", call |-> "", stmts |-> << >>, toks |-> toks]

\* proc_macro2::TokenStream::new(): no impl block at all.
EmptyTokens ==
    [kind |-> "none", ty |-> "", arms |-> << >>,
     encode |-> None, encode_nullable |-> None, size_hint |-> None]

\* The functions an emitted impl block defines.
Ops(tts) ==
    { op \in {"encode", "encode_nullable", "size_hint"} :
        CASE op = "encode" -> IsSome(tts.encode)
          [] op = "encode_nullable" -> IsSome(tts.encode_nullable)
          [] OTHER -> IsSome(tts.size_hint) }

\* ------------------------------------------------------ shape classifier
\* Faulty variant of MatchData: the two arms of `match args.repr` exchanged.
MatchData_ReprInverted(data, nfields, repr) ==
    CASE data = "struct_unnamed" /\ nfields = 1 -> "transparent"
      [] data = "enum" /\ IsSome(repr) -> "strong_enum"
      [] data = "enum" -> "weak_enum"
      [] data = "struct_named" -> "struct"
      [] data = "union" -> "err_union"
      [] data = "struct_unnamed" -> "err_unnamed"
      [] OTHER -> "err_unit"

\* The match of expand_derive_encode, arms tried in source order.
MatchData(data, nfields, repr) ==
    CASE data = "struct_unnamed" /\ nfields = 1 -> "transparent"
      [] data = "enum" /\ IsSome(repr) -> "weak_enum"
      [] data = "enum" -> "strong_enum"
      [] data = "struct_named" -> "struct"
      [] data = "union" -> "err_union"
      [] data = "struct_unnamed" -> "err_unnamed"
      [] OTHER -> "err_unit"

\* Faulty variant of ArmError: the unit arm carrying the unnamed arm's message.
ArmError_CopyPaste(branch) ==
    CASE branch = "err_union" -> "unions are not supported"
      [] OTHER -> "structs with zero or more than one unnamed field are not supported"

\* The message of each error arm.
ArmError(branch) ==
    CASE branch = "err_union" -> "unions are not supported"
      [] branch = "err_unnamed" ->
            "structs with zero or more than one unnamed field are not supported"
      [] OTHER -> "unit structs are not supported"

\* ----------------------------------------------------------- generators
\* Faulty variant of TransparentImpl: encode_nullable left to the trait's default.
TransparentImpl_DefaultNullable(ty) ==
    [kind |-> "transparent", ty |-> ty, arms |-> << >>,
     encode |-> Some(Delegate("self.0", "encode")),
     encode_nullable |-> None,
     size_hint |-> Some(Delegate("self.0", "size_hint"))]

\* expand_derive_encode_transparent: the quote! block.
TransparentImpl(ty) ==
    [kind |-> "transparent", ty |-> ty, arms |-> << >>,
     encode |-> Some(Delegate("self.0", "encode")),
     encode_nullable |-> Some(Delegate("self.0", "encode_nullable")),
     size_hint |-> Some(Delegate("self.0", "size_hint"))]

\* expand_derive_encode_weak_enum: the quote! block.
WeakEnumImpl(repr) ==
    [kind |-> "weak_enum", ty |-> repr, arms |-> << >>,
     encode |-> Some(Delegate("self as repr", "encode")),
     encode_nullable |-> Some(Delegate("self as repr", "encode_nullable")),
     size_hint |-> Some(Delegate("self as repr", "size_hint"))]

\* Faulty variant of ArmLabel: the container's rename_all tested before the rename.
ArmLabel_RenameAllFirst(id, rename, pattern) ==
    IF IsSome(pattern) THEN rename_all(id, Unwrap(pattern))
    ELSE IF IsSome(rename) THEN Unwrap(rename)
    ELSE id

\* The label of one match arm: rename, else rename_all(identifier), else identifier.
ArmLabel(id, rename, pattern) ==
    IF IsSome(rename) THEN Unwrap(rename)
    ELSE IF IsSome(pattern) THEN rename_all(id, Unwrap(pattern))
    ELSE id

\* Faulty variant of PushArm: the vector rebuilt on every iteration.
PushArm_Overwrite(value_arms, v, label) ==
    << [variant |-> v, label |-> label] >>

\* value_arms.push(quote!(#ident :: #id => #label,))
PushArm(value_arms, v, label) ==
    Append(value_arms, [variant |-> v, label |-> label])

\* Faulty variant of StrongEnumImpl: size_hint not emitted.
StrongEnumImpl_NoSizeHint(value_arms) ==
    [kind |-> "strong_enum", ty |-> "str", arms |-> value_arms,
     encode |-> Some(Delegate("match", "encode")),
     encode_nullable |-> None,
     size_hint |-> None]

\* expand_derive_encode_strong_enum: the quote! block.
StrongEnumImpl(value_arms) ==
    [kind |-> "strong_enum", ty |-> "str", arms |-> value_arms,
     encode |-> Some(Delegate("match", "encode")),
     encode_nullable |-> None,
     size_hint |-> Some(Delegate("match", "size_hint"))]

\* Faulty variant of RecordWrites: the fields walked in reverse.
RecordWrites_Reversed(fields) ==
    [i \in 1..Len(fields) |-> [op |-> "encode", field |-> Len(fields) + 1 - i]]

\* writes: one `encoder.encode(&self.#id);` per field, in field order.
RecordWrites(fields) ==
    [i \in 1..Len(fields) |-> [op |-> "encode", field |-> i]]

\* The statements of the emitted record encode.
RecordStmts(fields) ==
    << [op |-> "new", field |-> 0] >> \o RecordWrites(fields)
        \o << [op |-> "finish", field |-> 0] >>

\* oid (int) and length (int) for each column
PerColumn == 4 + 4

Lit(n) == [t |-> "lit", n |-> n]
Hint(i) == [t |-> "hint", n |-> i]
Mul == [t |-> "mul", n |-> 0]
Add == [t |-> "add", n |-> 0]

\* #(#sizes)+* : the size expressions separated by `+`.
RECURSIVE Separated(_, _)
Separated(n, i) ==
    IF i > n THEN << >>
    ELSE IF i = n THEN << Hint(i) >>
    ELSE << Hint(i), Add >> \o Separated(n, i + 1)

\* #column_count * (4 + 4) + #(#sizes)+*
SizeTokens(fields) ==
    << Lit(Len(fields)), Mul, Lit(PerColumn), Add >> \o Separated(Len(fields), 1)

\* expand_derive_encode_struct: the quote! block under cfg!(feature = "postgres").
StructImpl(fields) ==
    [kind |-> "struct", ty |-> "", arms |-> << >>,
     encode |-> Some(RecordBody(RecordStmts(fields))),
     encode_nullable |-> None,
     size_hint |-> Some(SumBody(SizeTokens(fields)))]

\* --------------------------------------- run-time values and primitive codecs
\* A value of a field type: an i16 is always present; an Option<i16> may be NULL.
Val(n) == [some |-> TRUE, n |-> n]
Null == [some |-> FALSE, n |-> 0]
ValuesOf(ty) == IF ty = "i16" THEN {Val(-1), Val(2)} ELSE {Null, Val(2)}

\* iN::to_be_bytes
ToBeBytes(x, ty) ==
    LET u == x % Pow2(TypeBits(ty))
    IN IF ty = "i8" THEN << u >> ELSE << u \div 256, u % 256 >>

\* u32/i32::to_be_bytes for the small counts and lengths of a record, and -1.
Be4(n) == IF n < 0 THEN << 255, 255, 255, 255 >> ELSE << 0, 0, n \div 256, n % 256 >>

\* <T as Encode<DB>>::encode: the bytes appended.
TypeEncode(ty, v) ==
    CASE ty = "str" -> v
      [] ty = "i8" -> ToBeBytes(v.n, "i8")
      [] ty = "i16" -> ToBeBytes(v.n, "i16")
      [] OTHER -> IF v.some THEN ToBeBytes(v.n, "i16") ELSE << >>

\* <T as Encode<DB>>::encode_nullable: the bytes appended and the IsNull answer.
TypeEncodeNullable(ty, v) ==
    IF ty = "opt_i16" /\ ~v.some
    THEN [bytes |-> << >>, is_null |-> "Yes"]
    ELSE [bytes |-> TypeEncode(ty, v), is_null |-> "No"]

\* <T as Encode<DB>>::size_hint
TypeSizeHint(ty, v) ==
    CASE ty = "str" -> Len(v)
      [] ty = "i8" -> 1
      [] ty = "i16" -> 2
      [] OTHER -> IF v.some THEN 2 ELSE 0

\* <T as Type<Postgres>>::type_info().oid(): int2 for both field types.
TypeOid(ty) == 21

\* ------------------------------------------- semantics of the emitted impl
\* The values `self` can take for the type the derive was applied to.
SelfValues(inp) ==
    CASE inp.data = "enum" -> 1..Len(inp.variants)
      [] inp.data \in {"struct_unnamed", "struct_named"} ->
            { s \in [1..Len(inp.fields) -> {Null, Val(-1), Val(2)}] :
                \A i \in 1..Len(inp.fields) : s[i] \in ValuesOf(inp.fields[i].ty) }
      [] OTHER -> {}

\* match self { arms }: the label of the first arm whose pattern is the variant.
HasArm(arms, v) == \E j \in 1..Len(arms) : arms[j].variant = v
MatchArms(arms, v) ==
    LET j == CHOOSE k \in 1..Len(arms) :
                 arms[k].variant = v /\ \A m \in 1..(k - 1) : arms[m].variant # v
    IN arms[j].label

\* Faulty variant of EnumCast: the variant's position instead of its discriminant.
EnumCast_Position(variants, v, repr) == CastAs(v - 1, repr)

\* `*self as #repr`: the enum's discriminant, cast to the representation type.
EnumCast(variants, v, repr) == CastAs(Discriminant(variants, v), repr)

\* The receiver of a delegating body: its type and its value.
Receiver(body, tts, inp, self) ==
    CASE body.recv = "self.0" -> [ty |-> tts.ty, v |-> self[1]]
      [] body.recv = "self as repr" ->
            [ty |-> tts.ty, v |-> Val(EnumCast(inp.variants, self, tts.ty))]
      [] OTHER -> [ty |-> "str", v |-> MatchArms(tts.arms, self)]

\* A `+`/`*` expression is an operand followed by (operator, operand) pairs.
WellFormed(toks) ==
    /\ Len(toks) % 2 = 1
    /\ \A j \in 1..Len(toks) :
          IF j % 2 = 1 THEN toks[j].t \in {"lit", "hint"}
          ELSE toks[j].t \in {"mul", "add"}

Operand(tok, inp, self) ==
    IF tok.t = "lit" THEN tok.n
    ELSE TypeSizeHint(inp.fields[tok.n].ty, self[tok.n])

\* Evaluation with `*` binding tighter than `+`.
RECURSIVE EvalFrom(_, _, _, _, _, _)
EvalFrom(toks, inp, self, j, acc, prod) ==
    IF j > Len(toks) THEN acc + prod
    ELSE LET x == Operand(toks[j + 1], inp, self)
         IN IF toks[j].t = "mul"
            THEN EvalFrom(toks, inp, self, j + 2, acc, prod * x)
            ELSE EvalFrom(toks, inp, self, j + 2, acc + prod, x)
EvalExpr(toks, inp, self) ==
    EvalFrom(toks, inp, self, 2, 0, Operand(toks[1], inp, self))

\* Whether rustc accepts the emitted impl: the match is exhaustive and the
\* size_hint expression parses.
Compiles(tts, inp) ==
    /\ tts.kind # "none"
    /\ tts.kind = "strong_enum" =>
          \A v \in 1..Len(inp.variants) : HasArm(tts.arms, v)
    /\ tts.kind = "struct" => WellFormed(Unwrap(tts.size_hint).toks)

\* ------------------------------------------------------------------ state
VARIABLES
    input,             \* the DeriveInput of this pass
    feature_postgres,  \* cfg!(feature = "postgres") of this build
    pc,                \* position of the pass, then of the call into the impl
    args,              \* expand_derive_encode: parsed container attributes
    branch,            \* expand_derive_encode: the match arm taken
    cattr,             \* strong enum: checked container attributes
    value_arms,        \* strong enum: the arms pushed so far
    vi,                \* strong enum: index of the variant the loop is at
    result,            \* what expand_derive_encode returns
    call,              \* the trait method called on the emitted impl
    self_val,          \* the value it is called on
    buf0,              \* the buffer contents at the call
    buf,               \* the buffer
    is_null,           \* the IsNull answer of encode_nullable
    hint,              \* the answer of size_hint
    ip,                \* record encode: index of the next statement
    encoder,           \* record encode: the PgRecordEncoder
    events             \* record encode: the encoder calls made, in order

vars == << input, feature_postgres, pc, args, branch, cattr, value_arms, vi,
           result, call, self_val, buf0, buf, is_null, hint, ip, encoder, events >>

passVars == << args, branch, cattr, value_arms, vi, result >>
callVars == << call, self_val, buf0, buf, is_null, hint, ip, encoder, events >>

Pending == [state |-> "pending", tts |-> EmptyTokens, diags |-> << >>]
OkResult(tts) == [state |-> "ok", tts |-> tts, diags |-> << >>]
ErrResult(msg) == [state |-> "err", tts |-> EmptyTokens, diags |-> << msg >>]

NoEncoder == [open |-> FALSE, finished |-> FALSE, beg |-> 0, num |-> 0]
InitialBufs == { << >>, << 9 >> }

Init ==
    /\ input \in DeriveInputs
    /\ feature_postgres \in BOOLEAN
    /\ pc = "expand"
    /\ args = NoAttrs
    /\ branch = "none"
    /\ cattr = NoAttrs
    /\ value_arms = << >>
    /\ vi = 0
    /\ result = Pending
    /\ call = "none"
    /\ self_val = 0
    /\ buf0 = << >>
    /\ buf = << >>
    /\ is_null = "none"
    /\ hint = -1
    /\ ip = 0
    /\ encoder = NoEncoder
    /\ events = << >>

\* ------------------------------------------------------- the generation pass
\* expand_derive_encode: parse the container attributes, then the match.
ExpandDeriveEncode ==
    /\ pc = "expand"
    /\ LET a == parse_container_attributes(input.attrs)
           b == MatchData(input.data, Len(input.fields), a.val.repr)
       IN IF ~a.ok
          THEN /\ result' = ErrResult(a.err)
               /\ pc' = "done"
               /\ UNCHANGED << args, branch >>
          ELSE /\ args' = a.val
               /\ branch' = b
               /\ IF b \in {"err_union", "err_unnamed", "err_unit"}
                  THEN result' = ErrResult(ArmError(b)) /\ pc' = "done"
                  ELSE result' = result /\ pc' = b
    /\ UNCHANGED << input, feature_postgres, cattr, value_arms, vi >>
    /\ UNCHANGED callVars

\* expand_derive_encode_transparent
ExpandTransparent ==
    /\ pc = "transparent"
    /\ LET c == check_transparent_attributes(input.attrs)
       IN result' = IF ~c.ok THEN ErrResult(c.err)
                    ELSE OkResult(TransparentImpl(input.fields[1].ty))
    /\ pc' = "done"
    /\ UNCHANGED << input, feature_postgres, args, branch, cattr, value_arms, vi >>
    /\ UNCHANGED callVars

\* expand_derive_encode_weak_enum
ExpandWeakEnum ==
    /\ pc = "weak_enum"
    /\ LET c == check_weak_enum_attributes(input.attrs)
       IN result' = IF ~c.ok THEN ErrResult(c.err)
                    ELSE OkResult(WeakEnumImpl(Unwrap(c.val.repr)))
    /\ pc' = "done"
    /\ UNCHANGED << input, feature_postgres, args, branch, cattr, value_arms, vi >>
    /\ UNCHANGED callVars

\* expand_derive_encode_strong_enum, up to the loop.
StrongEnumCheck ==
    /\ pc = "strong_enum"
    /\ LET c == check_strong_enum_attributes(input.attrs)
       IN IF ~c.ok
          THEN /\ result' = ErrResult(c.err)
               /\ pc' = "done"
               /\ UNCHANGED << cattr, value_arms, vi >>
          ELSE /\ cattr' = c.val
               /\ value_arms' = << >>
               /\ vi' = 1
               /\ pc' = "strong_loop"
               /\ UNCHANGED result
    /\ UNCHANGED << input, feature_postgres, args, branch >>
    /\ UNCHANGED callVars

\* Faulty variant of ChildFailure: the error swallowed and the arms built so far emitted.
ChildFailure_EmitPartial(arms, err) ==
    [state |-> "ok", tts |-> StrongEnumImpl(arms), diags |-> << >>]

\* `parse_child_attributes(&v.attrs)?` failing inside the loop: the function
\* returns the error and nothing else.
ChildFailure(arms, err) == ErrResult(err)

\* One iteration of `for v in variants`.
StrongEnumArm ==
    /\ pc = "strong_loop"
    /\ vi <= Len(input.variants)
    /\ LET attributes == parse_child_attributes(input.variants[vi].attr)
       IN IF ~attributes.ok
          THEN /\ result' = ChildFailure(value_arms, attributes.err)
               /\ pc' = "done"
               /\ UNCHANGED << value_arms, vi >>
          ELSE /\ value_arms' =
                     PushArm(value_arms, vi,
                             ArmLabel(VariantIdent(vi), attributes.val.rename,
                                      cattr.rename_all))
               /\ vi' = vi + 1
               /\ UNCHANGED << result, pc >>
    /\ UNCHANGED << input, feature_postgres, args, branch, cattr >>
    /\ UNCHANGED callVars

\* expand_derive_encode_strong_enum, after the loop: the quote! block.
StrongEnumEmit ==
    /\ pc = "strong_loop"
    /\ vi > Len(input.variants)
    /\ result' = OkResult(StrongEnumImpl(value_arms))
    /\ pc' = "done"
    /\ UNCHANGED << input, feature_postgres, args, branch, cattr, value_arms, vi >>
    /\ UNCHANGED callVars

\* The tokens expand_derive_encode_struct returns once the attributes passed.
StructTokens(fields, postgres) ==
    IF postgres THEN StructImpl(fields) ELSE EmptyTokens

\* expand_derive_encode_struct
ExpandStruct ==
    /\ pc = "struct"
    /\ LET c == check_struct_attributes(input.attrs)
       IN result' = IF ~c.ok THEN ErrResult(c.err)
                    ELSE OkResult(StructTokens(input.fields, feature_postgres))
    /\ pc' = "done"
    /\ UNCHANGED << input, feature_postgres, args, branch, cattr, value_arms, vi >>
    /\ UNCHANGED callVars

\* ------------------------------------------------- calls into the emitted impl
\* <ty as Encode<DB>>::call(v): bytes appended, IsNull answer, size answer.
ApplyCall(name, ty, v) ==
    CASE name = "encode" ->
            [bytes |-> TypeEncode(ty, v), is_null |-> "none", hint |-> -1]
      [] name = "encode_nullable" ->
            [bytes |-> TypeEncodeNullable(ty, v).bytes,
             is_null |-> TypeEncodeNullable(ty, v).is_null, hint |-> -1]
      [] OTHER ->
            [bytes |-> << >>, is_null |-> "none", hint |-> TypeSizeHint(ty, v)]

EvalDelegate(body, tts, inp, self) ==
    LET r == Receiver(body, tts, inp, self)
    IN ApplyCall(body.call, r.ty, r.v)

Runnable ==
    /\ pc = "done"
    /\ result.state = "ok"
    /\ Compiles(result.tts, input)

\* Encode::encode on the emitted impl.
CallEncode ==
    /\ Runnable
    /\ \E self \in SelfValues(input), b0 \in InitialBufs :
          LET body == Unwrap(result.tts.encode)
          IN /\ call' = "encode"
             /\ self_val' = self
             /\ buf0' = b0
             /\ IF body.form = "delegate"
                THEN /\ buf' = b0 \o EvalDelegate(body, result.tts, input, self).bytes
                     /\ pc' = "returned"
                     /\ ip' = ip
                ELSE /\ buf' = b0
                     /\ pc' = "in_encode"
                     /\ ip' = 1
    /\ UNCHANGED << input, feature_postgres, is_null, hint, encoder, events >>
    /\ UNCHANGED passVars

\* Encode::encode_nullable: the emitted function, else the trait's default
\* (`self.encode(buf); IsNull::No`).
CallEncodeNullable ==
    /\ Runnable
    /\ \E self \in SelfValues(input), b0 \in InitialBufs :
          /\ call' = "encode_nullable"
          /\ self_val' = self
          /\ buf0' = b0
          /\ IF IsSome(result.tts.encode_nullable)
             THEN LET r == EvalDelegate(Unwrap(result.tts.encode_nullable),
                                        result.tts, input, self)
                  IN /\ buf' = b0 \o r.bytes
                     /\ is_null' = r.is_null
                     /\ pc' = "returned"
                     /\ ip' = ip
             ELSE LET body == Unwrap(result.tts.encode)
                  IN IF body.form = "delegate"
                     THEN /\ buf' = b0 \o EvalDelegate(body, result.tts, input, self).bytes
                          /\ is_null' = "No"
                          /\ pc' = "returned"
                          /\ ip' = ip
                     ELSE /\ buf' = b0
                          /\ is_null' = is_null
                          /\ pc' = "in_encode"
                          /\ ip' = 1
    /\ UNCHANGED << input, feature_postgres, hint, encoder, events >>
    /\ UNCHANGED passVars

\* Encode::size_hint on the emitted impl.
CallSizeHint ==
    /\ Runnable
    /\ IsSome(result.tts.size_hint)
    /\ \E self \in SelfValues(input) :
          LET body == Unwrap(result.tts.size_hint)
          IN /\ call' = "size_hint"
             /\ self_val' = self
             /\ hint' = IF body.form = "delegate"
                        THEN EvalDelegate(body, result.tts, input, self).hint
                        ELSE EvalExpr(body.toks, input, self)
             /\ pc' = "returned"
    /\ UNCHANGED << input, feature_postgres, buf0, buf, is_null, ip, encoder, events >>
    /\ UNCHANGED passVars

\* PgRecordEncoder::new: reserve four bytes for the field count.
PgNew(b) ==
    [buf |-> b \o Be4(0),
     encoder |-> [open |-> TRUE, finished |-> FALSE, beg |-> Len(b) + 4, num |-> 0]]

\* PgRecordEncoder::encode: the field's type id, its length (-1 for NULL), its
\* bytes; one more field counted.
PgEncode(b, enc, ty, v) ==
    LET r == TypeEncodeNullable(ty, v)
        len == IF r.is_null = "Yes" THEN -1 ELSE Len(r.bytes)
    IN [buf |-> b \o Be4(TypeOid(ty)) \o Be4(len) \o r.bytes,
        encoder |-> [enc EXCEPT !.num = @ + 1]]

\* PgRecordEncoder::finish: the field count written into the reserved bytes.
PgFinish(b, enc) ==
    [buf |-> IF enc.open
             THEN [j \in 1..Len(b) |->
                     IF j > enc.beg - 4 /\ j <= enc.beg
                     THEN Be4(enc.num)[j - (enc.beg - 4)]
                     ELSE b[j]]
             ELSE b,
     encoder |-> [enc EXCEPT !.finished = TRUE]]

\* The statements of the emitted record encode being run.
Stmts == Unwrap(result.tts.encode).stmts

\* PgRecordEncoder::new(buf): reserve the field count.
EncoderNew ==
    /\ pc = "in_encode"
    /\ ip <= Len(Stmts)
    /\ Stmts[ip].op = "new"
    /\ buf' = PgNew(buf).buf
    /\ encoder' = PgNew(buf).encoder
    /\ events' = Append(events, Stmts[ip])
    /\ ip' = ip + 1
    /\ UNCHANGED << input, feature_postgres, pc, call, self_val, buf0, is_null, hint >>
    /\ UNCHANGED passVars

\* PgRecordEncoder::encode(&self.field): type id, length, then the value.
EncoderEncode ==
    /\ pc = "in_encode"
    /\ ip <= Len(Stmts)
    /\ Stmts[ip].op = "encode"
    /\ LET f == Stmts[ip].field
           r == PgEncode(buf, encoder, input.fields[f].ty, self_val[f])
       IN buf' = r.buf /\ encoder' = r.encoder
    /\ events' = Append(events, Stmts[ip])
    /\ ip' = ip + 1
    /\ UNCHANGED << input, feature_postgres, pc, call, self_val, buf0, is_null, hint >>
    /\ UNCHANGED passVars

\* PgRecordEncoder::finish(): write the field count into the reserved bytes.
EncoderFinish ==
    /\ pc = "in_encode"
    /\ ip <= Len(Stmts)
    /\ Stmts[ip].op = "finish"
    /\ buf' = PgFinish(buf, encoder).buf
    /\ encoder' = PgFinish(buf, encoder).encoder
    /\ events' = Append(events, Stmts[ip])
    /\ ip' = ip + 1
    /\ UNCHANGED << input, feature_postgres, pc, call, self_val, buf0, is_null, hint >>
    /\ UNCHANGED passVars

\* The end of the emitted record encode; the default encode_nullable then
\* answers IsNull::No.
EncodeReturn ==
    /\ pc = "in_encode"
    /\ ip > Len(Stmts)
    /\ pc' = "returned"
    /\ is_null' = IF call = "encode_nullable" THEN "No" ELSE is_null
    /\ UNCHANGED << input, feature_postgres, call, self_val, buf0, buf, hint, ip,
                    encoder, events >>
    /\ UNCHANGED passVars

Next ==
    \/ ExpandDeriveEncode
    \/ ExpandTransparent
    \/ ExpandWeakEnum
    \/ StrongEnumCheck
    \/ StrongEnumArm
    \/ StrongEnumEmit
    \/ ExpandStruct
    \/ CallEncode
    \/ CallEncodeNullable
    \/ CallSizeHint
    \/ EncoderNew
    \/ EncoderEncode
    \/ EncoderFinish
    \/ EncodeReturn

Spec == Init /\ [][Next]_vars

\* ============================================================== properties
AllOps == {"encode", "encode_nullable", "size_hint"}
Finished == pc \in {"done", "in_encode", "returned"}
Returned(kind, method) ==
    pc = "returned" /\ result.tts.kind = kind /\ call = method

\* The strategy the design assigns to a shape and its container representation.
Strategy(inp) ==
    IF inp.data = "struct_unnamed" /\ Len(inp.fields) = 1 THEN "transparent"
    ELSE IF inp.data = "enum"
         THEN (IF IsSome(inp.attrs.repr) THEN "weak_enum" ELSE "strong_enum")
    ELSE IF inp.data = "struct_named" THEN "struct"
    ELSE "unsupported"

BranchStrategy(b) ==
    IF b \in {"err_union", "err_unnamed", "err_unit"} THEN "unsupported" ELSE b

GeneratorOf(p) == IF p = "strong_loop" THEN "strong_enum" ELSE p

\* C1: every input whose container attributes resolve takes exactly the match
\* arm that its shape and the presence of a representation determine
\* (one-field unnamed struct -> transparent, enum with repr -> weak enum, enum
\* without -> strong enum, named struct -> record, anything else -> an error
\* arm); the pass is only ever inside that arm's generator, and a contract it
\* returns is that strategy's.
C1_ClassificationTotal ==
    /\ (pc # "expand" /\ ~input.attrs.bad) => branch # "none"
    /\ branch # "none" => BranchStrategy(branch) = Strategy(input)
    /\ pc \in {"transparent", "weak_enum", "strong_enum", "strong_loop", "struct"}
          => GeneratorOf(pc) = Strategy(input)
    /\ (result.state = "ok" /\ result.tts.kind # "none")
          => result.tts.kind = Strategy(input)

C1_Witness ==
    /\ pc = "done"
    /\ input.data = "enum"
    /\ IsSome(input.attrs.repr)
    /\ branch = "weak_enum"
    /\ result.state = "ok"

\* The label the design gives variant v of a strong enum.
ExpectedLabel(inp, v) ==
    IF inp.variants[v].attr = "rename" THEN RenameLabel
    ELSE IF IsSome(inp.attrs.rename_all) THEN ToLowercase(VariantIdent(v))
    ELSE VariantIdent(v)

\* C2: the emitted encode of an enum without a representation appends, for
\* each variant, the variant's rename if it has one, else the rename_all
\* casing of its identifier if the container has rename_all, else the raw
\* identifier.
C2_LabelPrecedence ==
    Returned("strong_enum", "encode")
        => buf = buf0 \o ExpectedLabel(input, self_val)

C2_Witness ==
    /\ Returned("strong_enum", "encode")
    /\ input.variants[self_val].attr = "rename"
    /\ IsSome(input.attrs.rename_all)
    /\ buf = buf0 \o RenameLabel
    /\ RenameLabel # ToLowercase(RenameLabel)

\* C3: the emitted encode, encode_nullable and size_hint of an enum with a
\* representation give what the representation type's own method gives for the
\* variant's discriminant: the declared value when the variant declares one.
C3_WeakEnumDiscriminant ==
    (pc = "returned" /\ result.tts.kind = "weak_enum") =>
        LET repr == Unwrap(input.attrs.repr)
            decl == input.variants[self_val].disc
            d == IF IsSome(decl) THEN Unwrap(decl)
                 ELSE Discriminant(input.variants, self_val)
        IN /\ call = "encode" => buf = buf0 \o ToBeBytes(d, repr)
           /\ call = "encode_nullable" =>
                 buf = buf0 \o ToBeBytes(d, repr) /\ is_null = "No"
           /\ call = "size_hint" => hint = TypeSizeHint(repr, Val(d))

C3_Witness ==
    /\ Returned("weak_enum", "encode")
    /\ self_val = 2
    /\ input.variants[1].disc = Some(0)
    /\ input.variants[2].disc = Some(4)
    /\ input.attrs.repr = Some("i16")
    /\ buf = buf0 \o << 0, 4 >>

\* C4: the emitted impl of a single-field unnamed struct answers each method
\* with exactly what the inner field's method answers: the same bytes, the same
\* IsNull, the same size.
C4_TransparentPassThrough ==
    (pc = "returned" /\ result.tts.kind = "transparent") =>
        LET ty == input.fields[1].ty
            x == self_val[1]
        IN /\ call = "encode" => buf = buf0 \o TypeEncode(ty, x)
           /\ call = "encode_nullable" =>
                 /\ buf = buf0 \o TypeEncodeNullable(ty, x).bytes
                 /\ is_null = TypeEncodeNullable(ty, x).is_null
           /\ call = "size_hint" => hint = TypeSizeHint(ty, x)

C4_Witness ==
    /\ Returned("transparent", "encode_nullable")
    /\ input.fields[1].ty = "opt_i16"
    /\ self_val[1] = Null
    /\ is_null = "Yes"
    /\ buf = buf0

RECURSIVE SumHints(_, _, _)
SumHints(inp, self, i) ==
    IF i > Len(inp.fields) THEN 0
    ELSE TypeSizeHint(inp.fields[i].ty, self[i]) + SumHints(inp, self, i + 1)

\* C5: for every named struct the record generator emits an impl for, whatever
\* its field count, the emitted size_hint is an expression whose value is
\* column_count * 8 plus the sum of the fields' size hints.
C5_RecordSizeHint ==
    (pc = "done" /\ result.state = "ok" /\ result.tts.kind = "struct") =>
        LET toks == Unwrap(result.tts.size_hint).toks
        IN /\ WellFormed(toks)
           /\ \A self \in SelfValues(input) :
                 EvalExpr(toks, input, self)
                    = Len(input.fields) * 8 + SumHints(input, self, 1)

\* The encoder calls the design prescribes for a record of n fields.
ExpectedEvents(n) ==
    << [op |-> "new", field |-> 0] >>
        \o [i \in 1..n |-> [op |-> "encode", field |-> i]]
        \o << [op |-> "finish", field |-> 0] >>

IsPrefix(s, t) ==
    Len(s) <= Len(t) /\ \A j \in 1..Len(s) : s[j] = t[j]

\* C6: the emitted record encode opens one encoder, writes every field once in
\* declaration order, then finishes once: at every moment the calls made are a
\* prefix of new, encode(field 1), ..., encode(field n), finish, and at return
\* they are all of it, with n entries counted by the encoder.
C6_RecordEncodeSequence ==
    result.tts.kind = "struct" =>
        /\ IsPrefix(events, ExpectedEvents(Len(input.fields)))
        /\ (pc = "returned" /\ call \in {"encode", "encode_nullable"}) =>
              /\ events = ExpectedEvents(Len(input.fields))
              /\ encoder.num = Len(input.fields)
              /\ encoder.finished

C6_Witness ==
    /\ Returned("struct", "encode")
    /\ Len(input.fields) = 3
    /\ Len(events) = 5
    /\ events[2].field = 1
    /\ events[4].field = 3
    /\ encoder.finished

\* The diagnostic of an unsupported shape.
ExpectedDiagnostic(inp) ==
    IF inp.attrs.bad THEN "unexpected attribute"
    ELSE IF inp.data = "union" THEN "unions are not supported"
    ELSE IF inp.data = "struct_unnamed"
         THEN "structs with zero or more than one unnamed field are not supported"
    ELSE "unit structs are not supported"

\* C7: a union, an unnamed struct with zero or several fields, and a unit
\* struct each end the pass with one diagnostic that names the shape's own
\* constraint, and with no contract.
C7_UnsupportedShapes ==
    (pc # "expand" /\ Strategy(input) = "unsupported") =>
        /\ pc = "done"
        /\ result.state = "err"
        /\ result.tts = EmptyTokens
        /\ result.diags = << ExpectedDiagnostic(input) >>

C7_Witness ==
    /\ pc = "done"
    /\ input.data = "struct_unit"
    /\ ~input.attrs.bad
    /\ result.diags = << "unit structs are not supported" >>

\* C8 as stated: every contract a generator emits defines encode,
\* encode_nullable and size_hint.
C8_AllThreeOperations ==
    (result.state = "ok" /\ result.tts.kind # "none") => Ops(result.tts) = AllOps

\* C8 amended: the transparent and weak-enum generators emit encode,
\* encode_nullable and size_hint; the strong-enum and record generators emit
\* encode and size_hint only; the record generator emits nothing without the
\* postgres feature.
C8_EmittedOperations ==
    result.state = "ok" =>
        CASE branch \in {"transparent", "weak_enum"} -> Ops(result.tts) = AllOps
          [] branch = "strong_enum" -> Ops(result.tts) = {"encode", "size_hint"}
          [] branch = "struct" ->
                Ops(result.tts) =
                    (IF feature_postgres THEN {"encode", "size_hint"} ELSE {})
          [] OTHER -> FALSE

C8_Witness ==
    /\ pc = "done"
    /\ result.state = "ok"
    /\ branch = "strong_enum"
    /\ Len(input.variants) = 3
    /\ Ops(result.tts) = {"encode", "size_hint"}

\* A contract that is all there: it is the branch's own, it has encode and
\* size_hint, and a strong enum's table has an arm for every variant.
CompleteContract ==
    /\ result.tts.kind = branch
    /\ {"encode", "size_hint"} \subseteq Ops(result.tts)
    /\ branch = "strong_enum" => Len(result.tts.arms) = Len(input.variants)

FailedOutcome ==
    /\ result.state = "err"
    /\ Len(result.diags) = 1
    /\ result.tts = EmptyTokens

\* C9 as stated: a finished pass either succeeded with a complete contract or
\* failed with one diagnostic and no contract.
C9_TwoOutcomes ==
    Finished =>
        \/ result.state = "ok" /\ CompleteContract
        \/ FailedOutcome

\* C9 amended: a finished pass either succeeded with the complete contract of
\* the selected strategy, or succeeded with empty output because it is a record
\* pass of a build without the postgres feature, or failed with one diagnostic
\* and no contract; an unfinished pass has returned nothing.
C9_Outcomes ==
    /\ Finished =>
          \/ result.state = "ok" /\ CompleteContract
          \/ /\ result.state = "ok"
             /\ result.tts = EmptyTokens
             /\ branch = "struct"
             /\ ~feature_postgres
          \/ FailedOutcome
    /\ ~Finished => result = Pending

C9_Witness ==
    /\ pc = "done"
    /\ branch = "strong_enum"
    /\ Len(input.variants) = 3
    /\ Len(value_arms) = 2
    /\ input.variants[3].attr = "bogus"
    /\ FailedOutcome

\* C10: the strong-enum table has one arm per declared variant, in declaration
\* order, while it is built and when it is emitted; and the emitted encode and
\* size_hint both answer from that table's arm for the variant.
C10_ArmTable ==
    /\ pc = "strong_loop" =>
          /\ Len(value_arms) = vi - 1
          /\ \A j \in 1..Len(value_arms) : value_arms[j].variant = j
    /\ (result.state = "ok" /\ result.tts.kind = "strong_enum") =>
          /\ Len(result.tts.arms) = Len(input.variants)
          /\ \A j \in 1..Len(result.tts.arms) : result.tts.arms[j].variant = j
    /\ Returned("strong_enum", "encode") =>
          buf = buf0 \o result.tts.arms[self_val].label
    /\ Returned("strong_enum", "size_hint") =>
          hint = Len(result.tts.arms[self_val].label)

C10_Witness ==
    /\ Returned("strong_enum", "size_hint")
    /\ Len(result.tts.arms) = 3
    /\ self_val = 3
    /\ result.tts.arms[3].label = RenameLabel
    /\ hint = 4

====
